---- MODULE Spec2Model ----
(***************************************************************************)
(* StdoutChannel (src/src/lib.rs): two unbounded queues, two consumer      *)
(* tasks (process_stdout / process_stderr, or process_mock for capture     *)
(* sinks), two task-handle slots behind tokio mutexes, and the close()     *)
(* protocol.                                                               *)
(***************************************************************************)
EXTENDS Integers, Sequences, FiniteSets, TLC

VARIABLES
    kind,       \* "real": built by new(); "mock": built by with_mock_stdout()
    facade,     \* "alive" while some clone of the StdoutChannel exists
    queue,      \* queue[s]: every message ever pushed on the queue of s, in push order
    head,       \* head[s]: how many messages of queue[s] the consumer has popped
    task,       \* task[s]: position of the consumer task of s
    line,       \* line[s]: the item the consumer of s popped and is delivering
    buf,        \* buf[s]: Buffer.0 of the consumer of s (real sinks)
    sink,       \* sink[s]: what s has received (MockStdout vector / write_all calls)
    slot,       \* slot[s]: Option<StdoutTask> inside the mutex
    lock,       \* lock[s]: the close() call holding the mutex guard of slot[s], or 0
    closer,     \* closer[c]: position of close() call c
    late,       \* late[c]: close() call c was made after some close() returned Ok
    met,        \* met[c]: close() call c has run while another call was under way
                \* (recorded by the stepwise close() only)
    vec_len,    \* a Buffer on its own: self.0.len()
    vec_cap,    \* self.0.capacity()
    rendered,   \* write_line has been called on it
    text_len,   \* bytes of the Display text of the last value rendered
    start_cap,  \* capacity when the last write_line was entered
    write_cap   \* capacity when its writeln! began

capvars == <<vec_len, vec_cap, rendered, text_len, start_cap, write_cap>>

vars == <<kind, facade, queue, head, task, line, buf, sink, slot, lock,
          closer, late, met, capvars>>

\* Bounds of the model.
MaxSends == 2
NumClosers == 2

Sinks == {"stdout", "stderr"}
Producers == {"p1", "p2"}
Closers == 1..NumClosers
NL == "\n"

\* enum StdoutMessage<T> { Mesg(T), Close }. An item is tagged with the
\* method it was passed to, the producer that sent it and its rank among
\* the items passed to that method.
NoItem == [via |-> "none", n |-> 0, p |-> "none"]
Mesg(v) == [tag |-> "Mesg", item |-> v]
Close == [tag |-> "Close", item |-> NoItem]

\* The text of an item: each producer sends lines of its own, of
\* different lengths.
Text(p) == IF p = "p1" THEN <<"a", "b">> ELSE <<"c">>

\* Queue::push: unbounded, appends at the tail. (PushFront: a queue that
\* pushes at the head instead.)
PushFront(q, m) == <<m>> \o q
Push(q, m) == Append(q, m)

\* Queue::push never waits: it has no precondition. (CanPushWhenUnlocked:
\* a push that would wait for the guard of the slot.)
CanPushWhenUnlocked(s) == lock[s] = 0
CanPush(s) == TRUE

\* Some close() call has returned Ok(()).
closedOk == \E c \in Closers : closer[c] = "ok"

\* The items pushed on the queue of s, in push order.
Items(s) == LET d == SelectSeq(queue[s], LAMBDA m : m.tag = "Mesg")
            IN  [i \in 1..Len(d) |-> d[i].item]

NumSent == Len(Items("stdout")) + Len(Items("stderr"))

Construct(k) ==
    /\ kind = k
    /\ facade = "alive"
    /\ queue = [s \in Sinks |-> <<>>]
    /\ head = [s \in Sinks |-> 0]
    /\ task = [s \in Sinks |-> "pop"]
    /\ line = [s \in Sinks |-> NoItem]
    /\ buf = [s \in Sinks |-> <<>>]
    /\ sink = [s \in Sinks |-> <<>>]
    /\ slot = [s \in Sinks |-> "Some"]
    /\ lock = [s \in Sinks |-> 0]
    /\ closer = [c \in Closers |-> "idle"]
    /\ late = [c \in Closers |-> FALSE]
    /\ met = [c \in Closers |-> FALSE]
    /\ vec_len = 0
    /\ vec_cap = 0
    /\ rendered = FALSE
    /\ text_len = 0
    /\ start_cap = 0
    /\ write_cap = 0

----
\* Producers

\* send pushes on stdout_queue, send_err on stderr_queue. (SendErrToStdout:
\* a send_err that pushes on stdout_queue.)
SendErrToStdout == "stdout"
SendErrQueue == "stderr"

Enqueue(via, s, p) ==
    /\ facade = "alive"
    /\ NumSent < MaxSends
    /\ CanPush(s)
    /\ LET n == Cardinality({i \in 1..Len(queue[s]) : queue[s][i].item.via = via}) + 1
       IN  queue' = [queue EXCEPT ![s] = Push(@, Mesg([via |-> via, n |-> n, p |-> p]))]
    /\ UNCHANGED <<kind, facade, head, task, line, buf, sink, slot, lock,
                   closer, late, met, capvars>>

SendQueue == "stdout"
send(p) == Enqueue("send", SendQueue, p)

send_err(p) == Enqueue("send_err", SendErrQueue, p)

----
\* Line buffer

\* T: Display. The tests instantiate T with StackString, whose Display
\* writes the characters of the string.
Display(v) == Text(v.p)

\* Buffer::write_line: clear, then writeln!(buf, "{}", line); the slice
\* returned is the whole buffer. Only the contents of the Vec are state
\* here, not its capacity. (write_line_no_clear: a render that appends to
\* what the buffer holds.)
write_line_no_clear(b, v) == b \o Display(v) \o <<NL>>
write_line(b, v) ==
    LET cleared == <<>>
    IN  cleared \o Display(v) \o <<NL>>

\* The capacity of the Vec behind a Buffer, with lengths for contents.
MAX_BUFFER_CAPACITY == 4096

\* The lengths of the texts rendered.
TextLens == {0, 3, 8, 100, 2048, 3000, 4095, 4096, 4097, 5000, 9000}

Max(a, b) == IF a >= b THEN a ELSE b

\* Vec::shrink_to(min) on a Vec of length len: the capacity goes down to
\* the larger of len and min, and never up. (NoShrink: the capacity stays.)
NoShrink(cap, len, min) == cap
ShrinkTo(cap, len, min) == IF cap > Max(len, min) THEN Max(len, min) ELSE cap

\* Vec<u8> as io::Write: write_all(n bytes) is extend_from_slice, which
\* reserves n; a Vec too small grows to the larger of twice its capacity
\* and what is needed, and to 8 at least.
WriteBytes(cap, len, n) ==
    IF cap - len >= n THEN cap ELSE Max(8, Max(2 * cap, len + n))

\* Buffer::write_line on a value whose text has n bytes: clear; shrink when
\* the capacity is above MAX_BUFFER_CAPACITY; writeln!, which writes the
\* text and then the newline. It returns Ok(&self.0), the whole Vec.
render(n) ==
    LET cleared == 0
        shrunk == IF vec_cap > MAX_BUFFER_CAPACITY
                     THEN ShrinkTo(vec_cap, cleared, MAX_BUFFER_CAPACITY)
                     ELSE vec_cap
        withText == WriteBytes(shrunk, cleared, n)
        withNL == WriteBytes(withText, cleared + n, 1)
    IN  /\ rendered' = TRUE
        /\ text_len' = n
        /\ start_cap' = vec_cap
        /\ write_cap' = shrunk
        /\ vec_len' = cleared + n + 1
        /\ vec_cap' = withNL
        /\ UNCHANGED <<kind, facade, queue, head, task, line, buf, sink, slot, lock,
                       closer, late, met>>

\* Any sequence of write_line calls on one Buffer.
NextBuffer == \E n \in TextLens : render(n)

----
\* Consumer tasks

\* `while let StdoutMessage::Mesg(line) = queue.pop().await`: the loop ends
\* on a message that is not Mesg. (LoopNeverEnds: a loop that goes on after
\* Close; LoopEndsOnAny: a loop that ends on the first message.)
LoopNeverEnds(m) == FALSE
LoopEndsOnAny(m) == TRUE
LoopEnds(m) == m.tag = "Close"

\* `write_all(..).await?`: an Err leaves the task through `?`.
\* (RetryAfterError: a task that goes back to pop instead.)
RetryAfterError == "pop"
AfterWriteError == "failed"

\* mock_stdout.lock().await.push(line)
MockPush(v, x) == Append(v, x)

\* queue.pop().await: suspended while the queue is empty, else takes the
\* oldest message. A Mesg is rendered at once (real sinks) and the task
\* goes on to the write; anything else ends the loop with Ok(()).
Pop(s) ==
    /\ task[s] = "pop"
    /\ head[s] < Len(queue[s])
    /\ LET m == queue[s][head[s] + 1]
       IN  /\ head' = [head EXCEPT ![s] = @ + 1]
           /\ IF LoopEnds(m)
                 THEN /\ task' = [task EXCEPT ![s] = "done"]
                      /\ UNCHANGED <<line, buf>>
                 ELSE /\ task' = [task EXCEPT ![s] = "write"]
                      /\ line' = [line EXCEPT ![s] = m.item]
                      /\ buf' = IF kind = "real"
                                   THEN [buf EXCEPT ![s] = write_line(@, m.item)]
                                   ELSE buf
    /\ UNCHANGED <<kind, facade, queue, sink, slot, lock, closer, late, met, capvars>>

\* write_all(slice) returned Ok: the slice handed to the sink is recorded
\* with the item it was rendered from. The handle has accepted the bytes;
\* `out` tells whether they have left it for the file descriptor.
WriteOk(s) ==
    /\ kind = "real"
    /\ task[s] = "write"
    /\ sink' = [sink EXCEPT ![s] = Append(@, [src |-> line[s], bytes |-> buf[s],
                                               ok |-> TRUE, out |-> FALSE])]
    /\ task' = [task EXCEPT ![s] = "pop"]
    /\ line' = [line EXCEPT ![s] = NoItem]
    /\ UNCHANGED <<kind, facade, queue, head, buf, slot, lock, closer, late, met, capvars>>

\* write_all(slice) returned Err (the sink may have taken part of the
\* slice): the task returns the error. The slice handed over is recorded
\* with ok = FALSE. An Err of write_line leaves the task the same way.
WriteErr(s) ==
    /\ kind = "real"
    /\ task[s] = "write"
    /\ sink' = [sink EXCEPT ![s] = Append(@, [src |-> line[s], bytes |-> buf[s],
                                               ok |-> FALSE, out |-> FALSE])]
    /\ task' = [task EXCEPT ![s] = AfterWriteError]
    /\ line' = [line EXCEPT ![s] = NoItem]
    /\ UNCHANGED <<kind, facade, queue, head, buf, slot, lock, closer, late, met, capvars>>

process_stdout ==
    /\ kind = "real"
    /\ \/ Pop("stdout")
       \/ WriteOk("stdout")
       \/ WriteErr("stdout")

process_stderr ==
    /\ kind = "real"
    /\ \/ Pop("stderr")
       \/ WriteOk("stderr")
       \/ WriteErr("stderr")

MockWrite(s) ==
    /\ kind = "mock"
    /\ task[s] = "write"
    /\ sink' = [sink EXCEPT ![s] = MockPush(@, line[s])]
    /\ task' = [task EXCEPT ![s] = "pop"]
    /\ line' = [line EXCEPT ![s] = NoItem]
    /\ UNCHANGED <<kind, facade, queue, head, buf, slot, lock, closer, late, met, capvars>>

process_mock(s) ==
    /\ kind = "mock"
    /\ \/ Pop(s)
       \/ MockWrite(s)

----
\* close()

LockPc(s) == IF s = "stdout" THEN "lock_stdout" ELSE "lock_stderr"
AwaitPc(s) == IF s = "stdout" THEN "await_stdout" ELSE "await_stderr"
\* After the stdout slot comes the stderr slot, after the stderr slot Ok(()).
AfterSlot(s) == IF s = "stdout" THEN "lock_stderr" ELSE "ok"

InFlight(c) == closer[c] \notin {"idle", "ok", "err", "dropped"}

\* Option::take leaves None in the slot. (KeepSlot: the handle is read and
\* left in place.)
KeepSlot(s) == slot
TakeSlot(s) == [slot EXCEPT ![s] = "None"]

\* self.stdout_queue.push(StdoutMessage::Close);
\* self.stderr_queue.push(StdoutMessage::Close);
\* The calls are numbered in the order they are made. The two pushes run
\* in the first poll of the future, with no await between them.
close_push(c) ==
    /\ facade = "alive"
    /\ closer[c] = "idle"
    /\ \A d \in Closers : d < c => closer[d] # "idle"
    /\ queue' = [s \in Sinks |-> Push(queue[s], Close)]
    /\ late' = [late EXCEPT ![c] = closedOk]
    /\ closer' = [closer EXCEPT ![c] = LockPc("stdout")]
    /\ UNCHANGED <<kind, facade, head, task, line, buf, sink, slot, lock, met, capvars>>

\* `if let Some(t) = self.<s>_task.lock().await.take()`: waits for the
\* mutex; the guard is a temporary of the `if let` and lives to the end of
\* its block, so it is held across `t.await` and released at once when the
\* slot was empty.
close_lock(c, s) ==
    /\ closer[c] = LockPc(s)
    /\ lock[s] = 0
    /\ IF slot[s] = "Some"
          THEN /\ slot' = TakeSlot(s)
               /\ lock' = [lock EXCEPT ![s] = c]
               /\ closer' = [closer EXCEPT ![c] = AwaitPc(s)]
          ELSE /\ closer' = [closer EXCEPT ![c] = AfterSlot(s)]
               /\ UNCHANGED <<slot, lock>>
    /\ UNCHANGED <<kind, facade, queue, head, task, line, buf, sink, late, met, capvars>>

\* `t.await??`: resumes when the task has returned; Err leaves close()
\* through `?`, Ok goes on. Either way the guard is dropped. (The outer
\* `?` is for a JoinError; the tasks modelled here return, they do not
\* panic.)
close_await(c, s) ==
    /\ closer[c] = AwaitPc(s)
    /\ task[s] \in {"done", "failed"}
    /\ lock' = [lock EXCEPT ![s] = 0]
    /\ closer' = [closer EXCEPT ![c] = IF task[s] = "done" THEN AfterSlot(s) ELSE "err"]
    /\ UNCHANGED <<kind, facade, queue, head, task, line, buf, sink, slot, late, met, capvars>>

\* The caller drops the close() future at one of its await points (a
\* timeout around close(), a select!): a guard it holds is released, a
\* JoinHandle it holds is dropped, which detaches the task.
close_dropped(c) ==
    /\ closer[c] \in {LockPc(s) : s \in Sinks} \cup {AwaitPc(s) : s \in Sinks}
    /\ closer' = [closer EXCEPT ![c] = "dropped"]
    /\ lock' = [s \in Sinks |-> IF lock[s] = c THEN 0 ELSE lock[s]]
    /\ UNCHANGED <<kind, facade, queue, head, task, line, buf, sink, slot, late, met, capvars>>

\* Every clone of the channel is dropped: close() borrows the channel, so
\* no close() future is alive. The tasks own their queues (Arc::clone) and
\* a dropped JoinHandle detaches its task.
drop_channel ==
    /\ facade = "alive"
    /\ \A c \in Closers : ~InFlight(c)
    /\ facade' = "dropped"
    /\ UNCHANGED <<kind, queue, head, task, line, buf, sink, slot, lock, closer, late, met, capvars>>

close(c) ==
    \/ close_push(c)
    \/ \E s \in Sinks : close_lock(c, s)
    \/ \E s \in Sinks : close_await(c, s)

\* What a holder of the channel can do, whatever the sinks.
Calls ==
    \/ \E p \in Producers : send(p)
    \/ \E p \in Producers : send_err(p)
    \/ \E c \in Closers : close(c)
    \/ \E c \in Closers : close_dropped(c)
    \/ drop_channel

\* StdoutChannel::new(): both tasks write to the process's stdout / stderr.
new == Construct("real")

NextReal ==
    \/ Calls
    \/ process_stdout
    \/ process_stderr

SpecReal == new /\ [][NextReal]_vars

\* A Buffer as a task has it after Buffer::new(), rendered into while the
\* channel around it is left alone.
SpecBuffer == new /\ [][NextBuffer]_vars

\* StdoutChannel::with_mock_stdout(): both tasks run process_mock.
with_mock_stdout == Construct("mock")

NextMock ==
    \/ Calls
    \/ \E s \in Sinks : process_mock(s)

SpecMock == with_mock_stdout /\ [][NextMock]_vars

----
\* close(), push by push

\* The queues in the order close() pushes Close on them (lines 110, 111).
\* (ClosePushReversed: stderr_queue first.)
ClosePushReversed == <<"stderr", "stdout">>
ClosePushOrder == <<"stdout", "stderr">>

\* Line 110: the first push of call c. The call is under way from here on;
\* the calls it overlaps with are recorded.
close_push_1(c) ==
    /\ facade = "alive"
    /\ closer[c] = "idle"
    /\ \A d \in Closers : d < c => closer[d] # "idle"
    /\ queue' = [queue EXCEPT ![ClosePushOrder[1]] = Push(@, Close)]
    /\ late' = [late EXCEPT ![c] = closedOk]
    /\ met' = [d \in Closers |->
                   IF d = c THEN \E e \in Closers : InFlight(e)
                   ELSE met[d] \/ InFlight(d)]
    /\ closer' = [closer EXCEPT ![c] = "push_2"]
    /\ UNCHANGED <<kind, facade, head, task, line, buf, sink, slot, lock, capvars>>

\* Line 111: the second push; then the call goes for the stdout slot.
close_push_2(c) ==
    /\ closer[c] = "push_2"
    /\ queue' = [queue EXCEPT ![ClosePushOrder[2]] = Push(@, Close)]
    /\ closer' = [closer EXCEPT ![c] = LockPc("stdout")]
    /\ UNCHANGED <<kind, facade, head, task, line, buf, sink, slot, lock, late, met, capvars>>

\* close() with its two pushes as steps of their own: other threads can
\* push and pop between them.
close_stepwise(c) ==
    \/ close_push_1(c)
    \/ close_push_2(c)
    \/ \E s \in Sinks : close_lock(c, s)
    \/ \E s \in Sinks : close_await(c, s)

\* One producer: the order of the pushes and the waits of close() do not
\* depend on who sent what.
NextMockSteps ==
    \/ send("p1")
    \/ send_err("p1")
    \/ \E c \in Closers : close_stepwise(c)
    \/ \E c \in Closers : close_dropped(c)
    \/ drop_channel
    \/ \E s \in Sinks : process_mock(s)

SpecMockSteps == with_mock_stdout /\ [][NextMockSteps]_vars

----
\* Real sinks, with the buffering of the handle

\* tokio's stdout() / stderr() handle takes the bytes of write_all and
\* hands them to a blocking thread, which writes them when it runs; only
\* flush() waits for that. The tasks make a handle for every line and
\* never call flush(), so the bytes of an accepted line leave at a time of
\* their own, whatever the task and close() do meanwhile.
sink_drain(s) ==
    /\ kind = "real"
    /\ \E i \in 1..Len(sink[s]) :
           /\ sink[s][i].ok
           /\ ~sink[s][i].out
           /\ sink' = [sink EXCEPT ![s][i].out = TRUE]
    /\ UNCHANGED <<kind, facade, queue, head, task, line, buf, slot, lock, closer, late, met, capvars>>

NextRealDrain ==
    \/ send("p1")
    \/ send_err("p1")
    \/ \E c \in Closers : close(c)
    \/ \E c \in Closers : close_dropped(c)
    \/ drop_channel
    \/ process_stdout
    \/ process_stderr
    \/ \E s \in Sinks : sink_drain(s)

SpecRealDrain == new /\ [][NextRealDrain]_vars

----
\* Scheduling

\* Either constructor, one producer, every consumer.
NextFair ==
    \/ send("p1")
    \/ send_err("p1")
    \/ \E c \in Closers : close(c)
    \/ \E c \in Closers : close_dropped(c)
    \/ drop_channel
    \/ process_stdout
    \/ process_stderr
    \/ \E s \in Sinks : process_mock(s)

\* What a close() call does once it has been made: its caller polls the
\* future until it is ready, unless it drops it.
close_resume(c) ==
    \/ \E s \in Sinks : close_lock(c, s)
    \/ \E s \in Sinks : close_await(c, s)

\* The runtime polls every spawned task that can make progress (a write to
\* a sink completes, with Ok or with Err; nobody else holds the lock of a
\* capture vector forever) and every close() future that is awaited.
\* Sending, calling close(), dropping a future or the channel are up to
\* the callers.
Fairness ==
    /\ WF_vars(process_stdout)
    /\ WF_vars(process_stderr)
    /\ \A s \in Sinks : WF_vars(process_mock(s))
    /\ \A c \in Closers : WF_vars(close_resume(c))

SpecFair == (new \/ with_mock_stdout) /\ [][NextFair]_vars /\ Fairness

----
\* Vocabulary of the properties

IsPrefix(a, b) == Len(a) <= Len(b) /\ \A i \in 1..Len(a) : a[i] = b[i]

NoDuplicate(a) == \A i, j \in 1..Len(a) : a[i] = a[j] => i = j

\* The items s has received: the elements of the capture vector, or the
\* items whose rendered line a write_all call accepted.
Delivered(s) ==
    IF kind = "mock"
       THEN sink[s]
       ELSE LET w == SelectSeq(sink[s], LAMBDA ch : ch.ok)
            IN  [i \in 1..Len(w) |-> w[i].src]

ByProducer(a, p) == SelectSeq(a, LAMBDA v : v.p = p)

\* Position of the first Close in the queue of s (past the end if none).
FirstClose(s) ==
    IF \E i \in 1..Len(queue[s]) : queue[s][i].tag = "Close"
       THEN CHOOSE i \in 1..Len(queue[s]) :
                /\ queue[s][i].tag = "Close"
                /\ \A j \in 1..(i - 1) : queue[s][j].tag = "Mesg"
       ELSE Len(queue[s]) + 1

\* The items pushed on the queue of s before any Close.
BeforeClose(s) == [i \in 1..(FirstClose(s) - 1) |-> queue[s][i].item]

----
\* C1: FIFO per sink. In every reachable state the items delivered to a
\* sink are a prefix of the items pushed on its queue, in push order, and
\* so are the items of each single producer.
C1_FifoPerSink ==
    \A s \in Sinks :
        /\ IsPrefix(Delivered(s), Items(s))
        /\ \A p \in Producers :
               IsPrefix(ByProducer(Delivered(s), p), ByProducer(Items(s), p))

\* Two items of two producers have gone through one queue, in order, and
\* the consumer has ended on the Close behind them.
C1_Witness ==
    \E s \in Sinks :
        /\ task[s] = "done"
        /\ Len(sink[s]) = 2
        /\ sink[s][1].p # sink[s][2].p

\* C2: flush before return. Whenever a close() call has returned Ok, every
\* item passed to send / send_err before that call, and before any Close
\* was pushed, has been delivered to its sink. (Every close() pushes its
\* Close first, so these are the items in front of the first Close.)
C2_FlushBeforeReturn ==
    \A c \in Closers :
        closer[c] = "ok" =>
            \A s \in Sinks : IsPrefix(BeforeClose(s), Delivered(s))

C4_StreamIndependence ==
    /\ \A i \in 1..Len(Delivered("stdout")) : Delivered("stdout")[i].via = "send"
    /\ \A i \in 1..Len(Delivered("stderr")) : Delivered("stderr")[i].via = "send_err"
    /\ \A i \in 1..Len(Items("stdout")) : Items("stdout")[i].via = "send"
    /\ \A i \in 1..Len(Items("stderr")) : Items("stderr")[i].via = "send_err"

\* Both sinks have received an item while a close() is under way.
C4_Witness ==
    /\ Len(Delivered("stdout")) > 0
    /\ Len(Delivered("stderr")) > 0
    /\ \E c \in Closers : InFlight(c)

\* C5: capture fidelity and exactly-once delivery. Every element of a
\* capture vector is an item pushed on that sink's queue, no item is in it
\* twice, and once a close() call has returned Ok each vector is exactly
\* the items sent before the first Close.
C5_CaptureExact ==
    /\ \A s \in Sinks :
           /\ \A i \in 1..Len(sink[s]) : \E j \in 1..Len(Items(s)) : sink[s][i] = Items(s)[j]
           /\ NoDuplicate(sink[s])
    /\ closedOk => \A s \in Sinks : sink[s] = BeforeClose(s)

\* The part of C5 that does not rest on close(): the capture vectors hold
\* sent items only, each at most once.
CaptureFidelity ==
    \A s \in Sinks :
        /\ \A i \in 1..Len(sink[s]) : \E j \in 1..Len(Items(s)) : sink[s][i] = Items(s)[j]
        /\ NoDuplicate(sink[s])

\* C6: write failure. A failed write is the last thing its task does: only
\* the last write_all of a sink can have failed, and then (and only then)
\* the task has returned Err; from then on it pops nothing and writes
\* nothing; and a close() call that awaits the handle of a failed task
\* leaves the await with Err only (unless its caller drops it).
C6_WriteFailure ==
    /\ [](\A s \in Sinks :
              /\ \A i \in 1..(Len(sink[s]) - 1) : sink[s][i].ok
              /\ task[s] = "failed" <=>
                     (Len(sink[s]) > 0 /\ ~sink[s][Len(sink[s])].ok))
    /\ [][\A s \in Sinks :
              task[s] = "failed" =>
                  /\ task'[s] = "failed"
                  /\ head'[s] = head[s]
                  /\ sink'[s] = sink[s]]_vars
    /\ [][\A c \in Closers, s \in Sinks :
              (closer[c] = AwaitPc(s) /\ task[s] = "failed") =>
                  closer'[c] \in {AwaitPc(s), "err", "dropped"}]_vars

\* A write has failed with a Mesg still queued behind it, and a close()
\* call has returned Err.
C6_Witness ==
    /\ \E s \in Sinks :
           /\ task[s] = "failed"
           /\ \E i \in (head[s] + 1)..Len(queue[s]) : queue[s][i].tag = "Mesg"
    /\ \E c \in Closers : closer[c] = "err"

\* C7: send after close. Nothing pushed behind the first Close of a queue
\* is ever delivered; once the consumer has popped that Close it has popped
\* exactly the messages up to it, so whatever is pushed later stays in the
\* queue; and send / send_err are still enabled then.
C7_SendAfterClose ==
    \A s \in Sinks :
        /\ IsPrefix(Delivered(s), BeforeClose(s))
        /\ task[s] = "done" =>
               /\ head[s] = FirstClose(s)
               /\ (facade = "alive" /\ NumSent < MaxSends) =>
                      \A p \in Producers : ENABLED send(p) /\ ENABLED send_err(p)

\* The consumer of s has ended and a Mesg pushed behind the Close is still
\* in the queue.
C7_Witness ==
    \E s \in Sinks :
        /\ task[s] = "done"
        /\ head[s] < Len(queue[s])
        /\ queue[s][Len(queue[s])].tag = "Mesg"

\* C8: send and send_err never block and never fail. In every reachable
\* state in which a channel is left to call them on, both are enabled for
\* every producer (MaxSends is the only limit, and it is the model's).
C8_SendNeverBlocks ==
    (facade = "alive" /\ NumSent < MaxSends) =>
        \A p \in Producers : ENABLED send(p) /\ ENABLED send_err(p)

\* A send is possible while a close() call holds a slot's guard and the
\* task it awaits has failed.
C8_Witness ==
    /\ facade = "alive"
    /\ NumSent < MaxSends
    /\ \E s \in Sinks : lock[s] # 0 /\ task[s] = "failed"

\* C9 as claimed: a task ends with Ok only by popping a Close, and while no
\* Close has been pushed on its queue it is Running.
C9_CloseOnlyTermination ==
    \A s \in Sinks :
        /\ task[s] = "done" => (head[s] > 0 /\ queue[s][head[s]].tag = "Close")
        /\ FirstClose(s) > Len(queue[s]) => task[s] \in {"pop", "write"}

\* C9, amended: a task ends with Ok only by popping a Close; while no Close
\* has been pushed on its queue it is Running or has returned the error of
\* a failed write, and it returns Err only after the write that failed.
C9_CloseOnlySuccess ==
    \A s \in Sinks :
        /\ task[s] = "done" => (head[s] > 0 /\ queue[s][head[s]].tag = "Close")
        /\ FirstClose(s) > Len(queue[s]) => task[s] \in {"pop", "write", "failed"}
        /\ task[s] = "failed" => (Len(sink[s]) > 0 /\ ~sink[s][Len(sink[s])].ok)

\* Every clone has been dropped without a close(): the task of s has
\* delivered what was sent and is suspended on pop, its queue empty.
C9_Witness ==
    /\ facade = "dropped"
    /\ \E s \in Sinks :
           /\ FirstClose(s) > Len(queue[s])
           /\ task[s] = "pop"
           /\ head[s] = Len(queue[s])
           /\ Len(sink[s]) > 0

\* C10: rendering rule. The i-th slice handed to a real sink is the text of
\* the i-th item pushed on its queue followed by one newline, and nothing
\* else: no byte of an earlier line, no second newline.
C10_Rendering ==
    \A s \in Sinks : \A i \in 1..Len(sink[s]) :
        LET b == sink[s][i].bytes
        IN  /\ sink[s][i].src = Items(s)[i]
            /\ b = Text(Items(s)[i].p) \o <<NL>>
            /\ \A j \in 1..Len(b) : (b[j] = NL) <=> (j = Len(b))

\* A sink was handed a longer line and then a shorter one.
C10_Witness ==
    \E s \in Sinks :
        /\ Len(sink[s]) = 2
        /\ sink[s][1].ok /\ sink[s][2].ok
        /\ Len(sink[s][1].bytes) > Len(sink[s][2].bytes)

\* C11: close() handles each sink. Once a close() call has returned, with
\* Ok or with Err, both handle slots are empty: the call took and awaited
\* the handle of the stderr task whatever the stdout task returned.
C11_EachSinkHandled ==
    (\E c \in Closers : closer[c] \in {"ok", "err"}) =>
        \A s \in Sinks : slot[s] = "None"

\* C12: single consumption of the task handles. At most one close() call
\* awaits the task of a sink, it holds the guard of the slot and the slot is
\* empty meanwhile; an empty slot stays empty; a call starts awaiting a task
\* only by taking its handle out of a full slot; and a call that finds the
\* slot empty goes past it without awaiting.
C12_SingleTake ==
    /\ [](\A s \in Sinks :
              /\ Cardinality({c \in Closers : closer[c] = AwaitPc(s)}) <= 1
              /\ \A c \in Closers :
                     closer[c] = AwaitPc(s) => (slot[s] = "None" /\ lock[s] = c))
    /\ [][\A s \in Sinks : slot[s] = "None" => slot'[s] = "None"]_vars
    /\ [][\A c \in Closers, s \in Sinks :
              (closer'[c] = AwaitPc(s) /\ closer[c] # AwaitPc(s)) =>
                  /\ closer[c] = LockPc(s)
                  /\ slot[s] = "Some"
                  /\ slot'[s] = "None"]_vars
    /\ [][\A c \in Closers, s \in Sinks :
              (closer[c] = LockPc(s) /\ slot[s] = "None") =>
                  closer'[c] \in {LockPc(s), AfterSlot(s), "dropped"}]_vars

\* Two close() calls that were both made before either returned have both
\* returned Ok: each handle went to one of them only.
C12_Witness ==
    \E c, d \in Closers :
        /\ c # d
        /\ closer[c] = "ok" /\ closer[d] = "ok"
        /\ ~late[c] /\ ~late[d]

\* C13: concurrent closers all wait for the flush. A close() call that ran
\* while another close() call was under way and has returned Ok has
\* returned after both consumer tasks ended and after every item pushed in
\* front of the first Close of each queue was delivered.
C13_ConcurrentClosersWait ==
    \A c \in Closers :
        (met[c] /\ closer[c] = "ok") =>
            \A s \in Sinks :
                /\ task[s] \in {"done", "failed"}
                /\ IsPrefix(BeforeClose(s), Delivered(s))

\* C14: abandoned close. After a close() call was dropped by its caller, a
\* close() call made when no other call was under way (so after the drop)
\* that has returned Ok has returned after both consumer tasks ended and
\* after every item sent before the first close() was delivered. (The
\* first push of the first close() is the first Close of the stdout queue;
\* what was sent on stderr before it is in front of the first Close of the
\* stderr queue, which the stderr task has consumed once it has ended.)
C14_AbandonedClose ==
    \A c, d \in Closers :
        (d < c /\ closer[d] = "dropped" /\ ~met[c] /\ closer[c] = "ok") =>
            /\ \A s \in Sinks : task[s] = "done"
            /\ IsPrefix(BeforeClose("stdout"), Delivered("stdout"))

\* C15: close() terminates. Under fair scheduling every close() call that
\* is under way leaves close(), with Ok or with Err (or because its caller
\* dropped it): again and again no close() call is under way, and a call,
\* once it has left close(), is never under way again.
C15_CloseTerminates ==
    []<>(\A c \in Closers : ~InFlight(c))

\* Two close() calls, both made before either returned, have both
\* returned, one with the Err of a failed write and one with Ok, with items
\* sent on both streams.
C15_Witness ==
    /\ \E c \in Closers : ~late[c] /\ closer[c] = "err"
    /\ \E c \in Closers : ~late[c] /\ closer[c] = "ok"
    /\ \A s \in Sinks : Len(Items(s)) > 0

\* How many Close messages have been pushed on the queue of s.
NumClose(s) == Cardinality({i \in 1..Len(queue[s]) : queue[s][i].tag = "Close"})

\* The steps of one close() call, in the order the claim gives them.
CloseOrder ==
    { <<"idle", "push_2">>, <<"push_2", "lock_stdout">>,
      <<"lock_stdout", "await_stdout">>, <<"lock_stdout", "lock_stderr">>,
      <<"await_stdout", "lock_stderr">>, <<"await_stdout", "err">>,
      <<"lock_stderr", "await_stderr">>, <<"lock_stderr", "ok">>,
      <<"await_stderr", "ok">>, <<"await_stderr", "err">> }
      \cup { <<pc, "dropped">> : pc \in {"lock_stdout", "await_stdout",
                                          "lock_stderr", "await_stderr"} }

\* C16: close protocol order. Every close() call that has been made has
\* pushed a Close on the stdout queue, and every call except those between
\* their two pushes has pushed one on the stderr queue as well: stdout
\* first, both before the call asks for a mutex, and also when the slots
\* are empty already. A call goes for the stdout slot, awaits its task if
\* it took the handle, and only then goes for the stderr slot.
C16_CloseProtocolOrder ==
    /\ [](/\ NumClose("stdout") = Cardinality({c \in Closers : closer[c] # "idle"})
          /\ NumClose("stderr") =
                 Cardinality({c \in Closers : closer[c] \notin {"idle", "push_2"}}))
    /\ [][\A c \in Closers :
              closer'[c] # closer[c] => <<closer[c], closer'[c]>> \in CloseOrder]_vars

\* A close() call made after another had returned Ok has found both slots
\* empty and returned Ok, and its two Close messages are in the queues.
C16_Witness ==
    /\ \E c \in Closers : late[c] /\ closer[c] = "ok"
    /\ \A s \in Sinks : slot[s] = "None" /\ NumClose(s) >= 2

\* C17: real sinks are flushed on shutdown. A real-sink task is back at
\* pop, or has ended with Ok, only with every line it took accepted whole
\* by the sink; and when it has ended with Ok, and so when a close() call
\* has returned Ok after awaiting it, every line it accepted has left the
\* buffering of the sink.
C17_FlushedOnShutdown ==
    \A s \in Sinks :
        /\ task[s] \in {"pop", "done"} =>
               \A i \in 1..Len(sink[s]) : sink[s][i].ok
        /\ task[s] = "done" =>
               \A i \in 1..Len(sink[s]) : sink[s][i].out

\* C18 as claimed: the buffer cap. Every render returns the whole line,
\* also of a text above 4096 bytes; a render entered with a capacity above
\* 4096 writes into a buffer shrunk to 4096; and after the render of a
\* line that fits in 4096 bytes, newline included, the capacity is at most
\* 4096, whatever was rendered before.
C18_CapAfterAnyFittingLine ==
    rendered =>
        /\ vec_len = text_len + 1
        /\ start_cap > MAX_BUFFER_CAPACITY => write_cap = MAX_BUFFER_CAPACITY
        /\ text_len + 1 <= MAX_BUFFER_CAPACITY => vec_cap <= MAX_BUFFER_CAPACITY

\* C18, amended: every render returns the whole line; a render entered
\* with a capacity above 4096 writes into a buffer shrunk to 4096, any
\* other into the buffer as it was, so the capacity is at most 4096 when
\* the writing begins; a line that fits in that capacity leaves it as it
\* is, so a render entered with a capacity of 4096 or more leaves exactly
\* 4096 after a line that fits in 4096 bytes; a line that does not fit can
\* leave up to twice its length.
C18_CapAfterShrunkRender ==
    rendered =>
        /\ vec_len = text_len + 1
        /\ vec_cap >= vec_len
        /\ start_cap > MAX_BUFFER_CAPACITY => write_cap = MAX_BUFFER_CAPACITY
        /\ start_cap <= MAX_BUFFER_CAPACITY => write_cap = start_cap
        /\ text_len + 1 <= write_cap => vec_cap = write_cap
        /\ (start_cap >= MAX_BUFFER_CAPACITY /\ text_len + 1 <= MAX_BUFFER_CAPACITY) =>
               vec_cap = MAX_BUFFER_CAPACITY
        /\ vec_cap <= Max(2 * MAX_BUFFER_CAPACITY, 2 * vec_len)

\* A short line has been rendered into a buffer left above 4096 bytes by
\* the line before it.
C18_Witness ==
    /\ rendered
    /\ start_cap > MAX_BUFFER_CAPACITY
    /\ text_len = 3
    /\ vec_cap = MAX_BUFFER_CAPACITY

====
